---- MODULE Spec2Model ----
(***************************************************************************)
(* Table-view controllers of the Tribler GUI                               *)
(* (TriblerGUI/widgets/triblertablecontrollers.py): the query uuid, the    *)
(* pagination window computed by perform_query, the admission of query     *)
(* responses by on_query_results / is_new_result, and the PATCH path of    *)
(* the "my torrents" controller.  All handlers run to completion on the    *)
(* Qt event loop, so every handler is one atomic action.                   *)
(* SpecFts explores to_fts_query, the compiler of the filter text, and     *)
(* SpecUpgrader the notifications of TriblerUpgrader                       *)
(* (Tribler/Core/Upgrade/upgrade.py); each specification leaves the        *)
(* variables of the other two as constructed.                              *)
(***************************************************************************)
EXTENDS Integers, Sequences, FiniteSets, Bags, TLC

(* ------------------------------ bounds --------------------------------- *)
MaxLen == 2         \* longest result collection explored
MaxUuid == 2        \* number of uuids minted in one behaviour
MaxInflight == 2    \* requests outstanding at the same time
MaxText == 3        \* longest filter text compiled by to_fts_query
MaxRuns == 3        \* calls of TriblerUpgrader.run() in one behaviour
MaxTicks == 2       \* status updates reported by the migrations of one behaviour

(* --------------------------- program values ---------------------------- *)
\* self.query_uuid = None, and "the response has no 'uuid' key"
NoUuid == 0
\* a uuid that is not the controller's current one and never will be: an
\* earlier query's, or one minted by another controller
ForeignUuid == MaxUuid + 1
\* model.item_load_batch of the table content model
item_load_batch == 50

\* the items the endpoints can report, by identity (infohash / public key)
Items == {"i1", "i2"}
Variants == {"search", "channels", "torrents", "mytorrents"}
\* the controllers that mix in FilterInputMixin
HasFilterInput == {"channels", "torrents", "mytorrents"}
\* the controllers that inherit fetch_preview
HasPreview == {"torrents", "mytorrents"}

\* the 'results' lists of a response: a page lists an item at most once
Batches ==
    {<<>>} \cup {<<a>> : a \in Items}
           \cup {p \in Items \X Items : p[1] # p[2]}

\* the values of a response's 'total' field
Totals == {0, 2}

VARIABLES
    variant,        \* which controller class this instance is
    query_uuid,     \* self.query_uuid (NoUuid = None)
    minted,         \* how many uuid4() values this controller has drawn
    data_items,     \* self.model.data_items
    total_items,    \* self.model.total_items
    channel_dirty,  \* window().edit_channel_page.channel_dirty
    inflight,       \* requests handed to TriblerRequestManager, not yet answered
    epoch_first,    \* 'first' of the latest request sent under query_uuid (0: none)
    query_text,     \* self.query_text, a sequence of characters
    filter,         \* the "filter" url parameter computed from query_text
    notified,       \* TriblerUpgrader.notified
    skip_upgrade_called, \* TriblerUpgrader.skip_upgrade_called
    dtp72,          \* TriblerUpgrader._dtp72 (NoMigration = None)
    migrations,     \* deferreds of do_migration() that have not fired yet
    notifications,  \* what session.notifier.notify was called with, in order
    runs,           \* how many times run() was called
    upgrade_last,   \* the last step of the upgrader and what it did
    last            \* the handler that ran last: its inputs, return value, events

\* the state of one table-view controller
controller_vars == <<variant, query_uuid, minted, data_items, total_items,
                     channel_dirty, inflight, epoch_first, last>>
\* the filter text and its compiled form
filter_vars == <<query_text, filter>>
\* the state of one TriblerUpgrader
upgrader_vars == <<notified, skip_upgrade_called, dtp72, migrations,
                   notifications, runs, upgrade_last>>

vars == <<controller_vars, filter_vars, upgrader_vars>>

(* ------------------------------ responses ------------------------------ *)
\* A falsy response (None, {}): on_query_results tests "if not response".
EmptyResponse ==
    [empty |-> TRUE, hasUuid |-> FALSE, uuid |-> NoUuid, results |-> <<>>,
     hasTotal |-> FALSE, total |-> 0, dirty |-> FALSE]

\* {uuid?: token, results: [...], total?: int, dirty: bool}
Response(u, rs, hasT, t, d) ==
    [empty |-> FALSE, hasUuid |-> u # NoUuid, uuid |-> u, results |-> rs,
     hasTotal |-> hasT, total |-> IF hasT THEN t ELSE 0, dirty |-> d]

\* The non-empty answers to a query sent with uuid u: the endpoint echoes
\* the uuid or leaves it out, and always reports 'total', which
\* on_query_results reads from every local response.  Only the "my
\* torrents" endpoint reports a dirty flag.
LocalResponses(u, v) ==
    { Response(ru, rs, TRUE, t, d) :
        ru \in {u, NoUuid}, rs \in Batches, t \in Totals,
        d \in IF v = "mytorrents" THEN BOOLEAN ELSE {FALSE} }

\* The non-empty results a remote peer can push while the controller's uuid
\* is q: without uuid, with q, or with a uuid that is not q; with or
\* without a 'total', which on_query_results never reads from them.
RemoteResponses(q) ==
    { Response(ru, rs, ht, t, FALSE) :
        ru \in {NoUuid, ForeignUuid, q}, rs \in Batches, ht \in BOOLEAN,
        t \in {2} }

(* ------------------------- the table content model --------------------- *)
\* model.rowCount()
rowCount(rows) == Len(rows)

\* model.add_items(new_items, remote): appended in arrival order
add_items(rows, new_items) == rows \o new_items

\* model.reset(): the collection and its count are dropped
model_reset == [data_items |-> <<>>, total_items |-> 0]

(* ------------------------------ requests ------------------------------- *)
\* url_params / method / target of one TriblerRequestManager.perform_request
QueryRequest(url, u, first, last_) ==
    [method |-> "GET", url |-> url, uuid |-> u, first |-> first, last |-> last_,
     target |-> "none"]

\* PATCH mychannel/torrents/<infohash>
PatchRequest(infohash) ==
    [method |-> "PATCH", url |-> "mychannel/torrents/%s", uuid |-> NoUuid,
     first |-> 0, last |-> 0, target |-> infohash]

\* keyword arguments of perform_query that the callers in this file pass
NoWindow == [hasFirst |-> FALSE, first |-> 0, hasLast |-> FALSE, last |-> 0]
Window(f, l) == [hasFirst |-> TRUE, first |-> f, hasLast |-> TRUE, last |-> l]

\* the rest_endpoint_url each subclass' perform_query settles on
rest_endpoint_url(v) ==
    CASE v = "search" -> "search"
      [] v = "channels" -> "metadata/channels"
      [] v = "torrents" -> "metadata/channels/%s/%i/torrents"
      [] v = "mytorrents" -> "mychannel/torrents"

(* ---------------------------- the controller --------------------------- *)
\* perform_query that mints a uuid only while there is none
perform_query_keeps_uuid(q, m, rows, kw, url) ==
    LET recompute == ~kw.hasFirst \/ ~kw.hasLast
        first == IF recompute THEN rowCount(rows) + 1 ELSE kw.first
        last_ == IF recompute THEN rowCount(rows) + item_load_batch ELSE kw.last
        mint == q = NoUuid
        u == IF mint THEN m + 1 ELSE q
    IN  [query_uuid |-> u,
         minted |-> IF mint THEN m + 1 ELSE m,
         request |-> QueryRequest(url, u, first, last_)]

\* perform_query that draws a uuid for every request
perform_query_always_mints(q, m, rows, kw, url) ==
    LET recompute == ~kw.hasFirst \/ ~kw.hasLast
        first == IF recompute THEN rowCount(rows) + 1 ELSE kw.first
        last_ == IF recompute THEN rowCount(rows) + item_load_batch ELSE kw.last
    IN  [query_uuid |-> m + 1,
         minted |-> m + 1,
         request |-> QueryRequest(url, m + 1, first, last_)]

\* perform_query whose recomputed window starts at rowCount()
perform_query_from_row_count(q, m, rows, kw, url) ==
    LET recompute == ~kw.hasFirst \/ ~kw.hasLast
        first == IF recompute THEN rowCount(rows) ELSE kw.first
        last_ == IF recompute THEN rowCount(rows) + item_load_batch ELSE kw.last
        mint == first = 1 \/ q = NoUuid
        u == IF mint THEN m + 1 ELSE q
    IN  [query_uuid |-> u,
         minted |-> IF mint THEN m + 1 ELSE m,
         request |-> QueryRequest(url, u, first, last_)]

\* perform_query whose recomputed window is one row too wide
perform_query_wide_window(q, m, rows, kw, url) ==
    LET recompute == ~kw.hasFirst \/ ~kw.hasLast
        first == IF recompute THEN rowCount(rows) + 1 ELSE kw.first
        last_ == IF recompute THEN rowCount(rows) + item_load_batch + 1
                              ELSE kw.last
        mint == first = 1 \/ q = NoUuid
        u == IF mint THEN m + 1 ELSE q
    IN  [query_uuid |-> u,
         minted |-> IF mint THEN m + 1 ELSE m,
         request |-> QueryRequest(url, u, first, last_)]

\* TriblerTableViewController.perform_query: the window, the uuid and the
\* request it hands to the request manager.
perform_query(q, m, rows, kw, url) ==
    LET recompute == ~kw.hasFirst \/ ~kw.hasLast
        first == IF recompute THEN rowCount(rows) + 1 ELSE kw.first
        last_ == IF recompute THEN rowCount(rows) + item_load_batch ELSE kw.last
        mint == first = 1 \/ q = NoUuid
        u == IF mint THEN m + 1 ELSE q
    IN  [query_uuid |-> u,
         minted |-> IF mint THEN m + 1 ELSE m,
         request |-> QueryRequest(url, u, first, last_)]

\* What the request manager keeps of a request until it is answered: the
\* callback it owes (by method) and the uuid the endpoint will echo.
Pending(req) == [method |-> req.method, uuid |-> req.uuid]

\* is_new_result that wants the response to carry the current uuid
is_new_result_strict(q, response) ==
    q = NoUuid \/ (response.hasUuid /\ response.uuid = q)

\* is_new_result that turns down every tagged response once a uuid is set
is_new_result_untagged_only(q, response) ==
    q = NoUuid \/ ~response.hasUuid

\* is_new_result that never calls a response stale
is_new_result_admits_all(q, response) == TRUE

\* TriblerTableViewController.is_new_result
is_new_result(q, response) ==
    ~(q # NoUuid /\ response.hasUuid /\ response.uuid # q)

\* on_query_results that takes the count from remote responses as well
on_query_results_counts_remote(q, rows, total, response, remote) ==
    IF response.empty
    THEN [data_items |-> rows, total_items |-> total, emitted |-> <<>>,
          ret |-> "False"]
    ELSE LET rows1 == IF is_new_result(q, response)
                      THEN add_items(rows, response.results)
                      ELSE rows
         IN  IF ~response.hasTotal
             THEN [data_items |-> rows1, total_items |-> total,
                   emitted |-> <<>>, ret |-> "KeyError"]
             ELSE [data_items |-> rows1, total_items |-> response.total,
                   emitted |-> <<[response |-> response, remote |-> remote,
                                  data_items |-> rows1,
                                  total_items |-> response.total]>>,
                   ret |-> "True"]

\* on_query_results with the emit under "if not remote"
on_query_results_emits_local_only(q, rows, total, response, remote) ==
    IF response.empty
    THEN [data_items |-> rows, total_items |-> total, emitted |-> <<>>,
          ret |-> "False"]
    ELSE LET rows1 == IF is_new_result(q, response)
                      THEN add_items(rows, response.results)
                      ELSE rows
         IN  IF remote
             THEN [data_items |-> rows1, total_items |-> total,
                   emitted |-> <<>>, ret |-> "True"]
             ELSE IF ~response.hasTotal
             THEN [data_items |-> rows1, total_items |-> total,
                   emitted |-> <<>>, ret |-> "KeyError"]
             ELSE [data_items |-> rows1, total_items |-> response.total,
                   emitted |-> <<[response |-> response, remote |-> remote,
                                  data_items |-> rows1,
                                  total_items |-> response.total]>>,
                   ret |-> "True"]

\* on_query_results without the "if not response" test: the empty response
\* is reported to the observers like any other
on_query_results_no_empty_test(q, rows, total, response, remote) ==
    [data_items |-> IF is_new_result(q, response)
                    THEN add_items(rows, response.results) ELSE rows,
     total_items |-> IF ~remote THEN response.total ELSE total,
     emitted |-> <<[response |-> response, remote |-> remote,
                    data_items |-> rows, total_items |-> total]>>,
     ret |-> "True"]

\* TriblerTableViewController.on_query_results.  ret is the returned value,
\* or "KeyError" when response['total'] is read from a response without it;
\* emitted lists the query_complete events with the model as it is then.
on_query_results(q, rows, total, response, remote) ==
    IF response.empty
    THEN [data_items |-> rows, total_items |-> total, emitted |-> <<>>,
          ret |-> "False"]
    ELSE LET rows1 == IF is_new_result(q, response)
                      THEN add_items(rows, response.results)
                      ELSE rows
         IN  IF ~remote /\ ~response.hasTotal
             THEN [data_items |-> rows1, total_items |-> total,
                   emitted |-> <<>>, ret |-> "KeyError"]
             ELSE LET total1 == IF ~remote THEN response.total ELSE total
                  IN  [data_items |-> rows1, total_items |-> total1,
                       emitted |-> <<[response |-> response, remote |-> remote,
                                      data_items |-> rows1,
                                      total_items |-> total1]>>,
                       ret |-> "True"]

\* MyTorrentsTableViewController.on_query_results: the dirty flag is taken
\* from the response when the base handler returned a true value.
my_on_query_results_dirty(base, dirty, response) ==
    IF base.ret = "True" THEN response.dirty ELSE dirty

\* _on_row_update_results without the "if response" test
on_row_update_results_untested(dirty, response) == response.dirty

\* MyTorrentsTableViewController._on_row_update_results
on_row_update_results(dirty, response) ==
    IF ~response.empty THEN response.dirty ELSE dirty

(* --------------------------- the filter compiler ----------------------- *)
\* A text is a sequence of one-character strings.
Letters == {"a", "b"}
Alphabet == Letters \cup {" ", "\"", "'"}
Texts == UNION {[1..n -> Alphabet] : n \in 0..MaxText}

\* unicode.translate(table): every character that has an entry in the table
\* is replaced by the entry, the others are kept
RECURSIVE translate(_, _)
translate(text, table) ==
    IF text = <<>> THEN <<>>
    ELSE (IF Head(text) \in DOMAIN table THEN table[Head(text)]
                                         ELSE <<Head(text)>>)
         \o translate(Tail(text), table)

\* sanitize_for_fts with a table that has no entry for the single quote
sanitize_for_fts_double_quote_only(text) ==
    translate(text, [c \in {"\""} |-> <<c, c>>])

\* sanitize_for_fts: {ord('"'): '""', ord("'"): "''"}
sanitize_for_fts(text) ==
    translate(text, [c \in {"\"", "'"} |-> <<c, c>>])

\* str.split(" "): cut at every single space, empty words are kept
RECURSIVE split(_)
split(text) ==
    LET spaces == {i \in 1..Len(text) : text[i] = " "}
    IN  IF spaces = {} THEN <<text>>
        ELSE LET i == CHOOSE j \in spaces : \A k \in spaces : j <= k
             IN  <<SubSeq(text, 1, i - 1)>>
                 \o split(SubSeq(text, i + 1, Len(text)))

\* sep.join(list)
RECURSIVE join(_, _)
join(sep, list) ==
    IF list = <<>> THEN <<>>
    ELSE IF Len(list) = 1 THEN list[1]
    ELSE list[1] \o sep \o join(sep, Tail(list))

\* to_fts_query
to_fts_query(text) ==
    IF text = <<>> THEN <<>>
    ELSE LET words == split(text)
             query_list == [i \in 1..Len(words) |->
                               <<"\"">> \o sanitize_for_fts(words[i])
                                        \o <<"\"", "*">>]
         IN  join(<<" ", "A", "N", "D", " ">>, query_list)

(* ------------------------------ the upgrader --------------------------- *)
\* self._dtp72 = None
NoMigration == [none |-> TRUE, shutting_down |-> FALSE]
\* a DispersyToPonyMigration object and its shutting_down flag
Migration(shutting_down) == [none |-> FALSE, shutting_down |-> shutting_down]

\* the (subject, changeType) pairs given to session.notifier.notify
UpgraderStarted == <<"NTFY_UPGRADER", "NTFY_STARTED">>
UpgraderFinished == <<"NTFY_UPGRADER", "NTFY_FINISHED">>
UpgraderTick == <<"NTFY_UPGRADER_TICK", "NTFY_STARTED">>

\* notify_starting without its "if not self.notified"
notify_starting_every_run(was_notified) ==
    [notified |-> TRUE, emitted |-> <<UpgraderStarted>>]

\* notify_starting: the new value of self.notified and what is broadcast
notify_starting(was_notified) ==
    IF ~was_notified
    THEN [notified |-> TRUE, emitted |-> <<UpgraderStarted>>]
    ELSE [notified |-> was_notified, emitted |-> <<>>]

\* notify_done: what is broadcast
notify_done == <<UpgraderFinished>>

\* how many times notification n was broadcast
Broadcasts(n) == Cardinality({i \in DOMAIN notifications : notifications[i] = n})

\* the last step of the upgrader; should_upgrade is the answer run() got
UpgraderDid(op, should) == [op |-> op, should_upgrade |-> should]

(* ------------------------------ history -------------------------------- *)
NoResponse == EmptyResponse

Last(op, response, remote, ret, emitted, dispatched) ==
    [op |-> op, response |-> response, remote |-> remote, ret |-> ret,
     emitted |-> emitted, dispatched |-> dispatched, fresh_uuid |-> FALSE]

\* a handler that received no response and returned nothing
Handled(op, dispatched) == Last(op, NoResponse, FALSE, "None", <<>>, dispatched)

\* a handler that ran perform_query with result pq; fresh_uuid tells
\* whether that call drew a uuid
Queried(op, pq) ==
    [Handled(op, <<pq.request>>) EXCEPT !.fresh_uuid = pq.minted # minted]

Room == BagCardinality(inflight) < MaxInflight

(* ------------------------------- Init ---------------------------------- *)
Init ==
    /\ variant \in Variants
    /\ query_uuid = NoUuid
    /\ minted = 0
    /\ data_items = <<>>
    /\ total_items = 0
    /\ channel_dirty = FALSE
    /\ inflight = EmptyBag
    /\ epoch_first = 0
    /\ last = Handled("init", <<>>)
    \* self.query_text = ''
    /\ query_text = <<>>
    /\ filter = <<>>
    \* TriblerUpgrader.__init__
    /\ notified = FALSE
    /\ skip_upgrade_called = FALSE
    /\ dtp72 = NoMigration
    /\ migrations = 0
    /\ notifications = <<>>
    /\ runs = 0
    /\ upgrade_last = UpgraderDid("init", FALSE)

(* ------------------------------ actions -------------------------------- *)
\* perform_query has run with result pq: the uuid is stored and the request
\* is with the request manager.
Dispatch(pq) ==
    /\ Room
    /\ pq.minted <= MaxUuid
    /\ query_uuid' = pq.query_uuid
    /\ minted' = pq.minted
    /\ inflight' = inflight (+) SetToBag({Pending(pq.request)})
    /\ epoch_first' = pq.request.first

\* _on_view_sort: model.reset(); perform_query(first=1, last=50)
on_view_sort ==
    LET pq == perform_query(query_uuid, minted, model_reset.data_items,
                            Window(1, 50), rest_endpoint_url(variant))
    IN  /\ Dispatch(pq)
        /\ data_items' = model_reset.data_items
        /\ total_items' = model_reset.total_items
        /\ last' = Queried("on_view_sort", pq)
        /\ UNCHANGED <<filter_vars, upgrader_vars>>
        /\ UNCHANGED <<variant, channel_dirty>>

\* _on_filter_input_change: model.reset(); perform_query(start=1, end=50),
\* which passes neither 'first' nor 'last'
on_filter_input_change ==
    LET pq == perform_query(query_uuid, minted, model_reset.data_items,
                            NoWindow, rest_endpoint_url(variant))
    IN  /\ variant \in HasFilterInput
        /\ Dispatch(pq)
        /\ data_items' = model_reset.data_items
        /\ total_items' = model_reset.total_items
        /\ last' = Queried("on_filter_input_change", pq)
        /\ UNCHANGED <<filter_vars, upgrader_vars>>
        /\ UNCHANGED <<variant, channel_dirty>>

\* the condition of _on_list_scroll without its "and self.model.data_items"
list_scroll_fetches_when_empty(at_bottom, rows) == at_bottom

\* the condition under which _on_list_scroll calls perform_query
list_scroll_fetches(at_bottom, rows) == at_bottom /\ rows # <<>>

\* _on_list_scroll with the scroll bar at its maximum (at_bottom) or not
on_list_scroll ==
    \E at_bottom \in BOOLEAN :
        LET pq == perform_query(query_uuid, minted, data_items, NoWindow,
                                rest_endpoint_url(variant))
            op == IF at_bottom THEN "on_list_scroll" ELSE "on_list_scroll_mid"
        IN  IF list_scroll_fetches(at_bottom, data_items)
            THEN /\ Dispatch(pq)
                 /\ last' = Queried(op, pq)
                 /\ UNCHANGED <<filter_vars, upgrader_vars>>
                 /\ UNCHANGED <<variant, data_items, total_items, channel_dirty>>
            ELSE /\ last' = Handled(op, <<>>)
                 /\ UNCHANGED <<filter_vars, upgrader_vars>>
                 /\ UNCHANGED <<variant, query_uuid, minted, data_items,
                                total_items, channel_dirty, inflight,
                                epoch_first>>

\* perform_query called by the page that owns the controller, with or
\* without an explicit first page
call_perform_query ==
    \E kw \in {NoWindow, Window(1, 50)} :
        LET pq == perform_query(query_uuid, minted, data_items, kw,
                                rest_endpoint_url(variant))
        IN  /\ Dispatch(pq)
            /\ last' = Queried(IF kw.hasFirst THEN "perform_query_first_page"
                                             ELSE "perform_query", pq)
            /\ UNCHANGED <<filter_vars, upgrader_vars>>
            /\ UNCHANGED <<variant, data_items, total_items, channel_dirty>>

\* TorrentsTableViewController.fetch_preview
fetch_preview ==
    LET pq == perform_query(query_uuid, minted, data_items, Window(1, 50),
                            "search")
    IN  /\ variant \in HasPreview
        /\ Dispatch(pq)
        /\ last' = Queried("fetch_preview", pq)
        /\ UNCHANGED <<filter_vars, upgrader_vars>>
        /\ UNCHANGED <<variant, data_items, total_items, channel_dirty>>

\* MyTorrentsTableViewController._on_row_edited on row i
on_row_edited ==
    \E i \in 1..Len(data_items) :
        /\ variant = "mytorrents"
        /\ Room
        /\ inflight' = inflight (+) SetToBag({Pending(PatchRequest(data_items[i]))})
        /\ last' = Handled("on_row_edited", <<PatchRequest(data_items[i])>>)
        /\ UNCHANGED <<filter_vars, upgrader_vars>>
        /\ UNCHANGED <<variant, query_uuid, minted, data_items, total_items,
                       channel_dirty, epoch_first>>

\* on_query_results(response, remote) has run
Receive(op, response, remote) ==
    LET base == on_query_results(query_uuid, data_items, total_items,
                                 response, remote)
    IN  /\ Len(base.data_items) <= MaxLen
        /\ data_items' = base.data_items
        /\ total_items' = base.total_items
        /\ channel_dirty' = IF variant = "mytorrents"
                            THEN my_on_query_results_dirty(base, channel_dirty,
                                                           response)
                            ELSE channel_dirty
        /\ last' = Last(op, response, remote, base.ret, base.emitted, <<>>)
        /\ UNCHANGED <<filter_vars, upgrader_vars>>
        /\ UNCHANGED <<variant, query_uuid, minted, epoch_first>>

\* the request manager calls back on_query_results with the answer to a
\* query request; the endpoint echoes the request's uuid or leaves it out
query_response ==
    \E req \in BagToSet(inflight) :
        \E response \in {EmptyResponse} \cup LocalResponses(req.uuid, variant) :
            /\ req.method = "GET"
            /\ inflight' = inflight (-) SetToBag({req})
            /\ Receive("query_response", response, FALSE)

\* results of remote peers are handed to on_query_results(response, remote=True)
remote_response ==
    \E response \in {EmptyResponse} \cup RemoteResponses(query_uuid) :
        /\ variant # "mytorrents"
        /\ Receive("remote_response", response, TRUE)
        /\ UNCHANGED inflight

\* the request manager calls back _on_row_update_results
patch_response ==
    \E req \in BagToSet(inflight) :
        \E response \in {EmptyResponse}
                \cup {Response(NoUuid, <<>>, FALSE, 0, d) : d \in BOOLEAN} :
            /\ req.method = "PATCH"
            /\ inflight' = inflight (-) SetToBag({req})
            /\ channel_dirty' = on_row_update_results(channel_dirty, response)
            /\ last' = Last("patch_response", response, FALSE, "None", <<>>, <<>>)
            /\ UNCHANGED <<filter_vars, upgrader_vars>>
            /\ UNCHANGED <<variant, query_uuid, minted, data_items, total_items,
                           epoch_first>>

\* the transport fails: the request manager never calls the callback
request_failed ==
    \E req \in BagToSet(inflight) :
        /\ inflight' = inflight (-) SetToBag({req})
        /\ last' = Handled("request_failed", <<>>)
        /\ UNCHANGED <<filter_vars, upgrader_vars>>
        /\ UNCHANGED <<variant, query_uuid, minted, data_items, total_items,
                       channel_dirty, epoch_first>>

Next ==
    \/ on_view_sort
    \/ on_filter_input_change
    \/ on_list_scroll
    \/ call_perform_query
    \/ fetch_preview
    \/ on_row_edited
    \/ query_response
    \/ remote_response
    \/ patch_response
    \/ request_failed

Spec == Init /\ [][Next]_vars

(* ------------------- the filter text and its compilation --------------- *)
\* perform_query computes the "filter" parameter of the request from
\* self.query_text, whatever text the filter input gave it; the listing
\* handlers above never read the text back, so they leave it alone and
\* this specification explores it on its own
filter_of_query_text ==
    \E text \in Texts :
        /\ query_text' = text
        /\ filter' = to_fts_query(text)
        /\ UNCHANGED <<controller_vars, upgrader_vars>>

NextFts == filter_of_query_text

SpecFts == Init /\ [][NextFts]_vars

(* ------------------------- the upgrader's steps ------------------------ *)
\* run() -> upgrade_72_to_pony(); should_upgrade(...) looks at the two
\* database files, its answer is an input of every call
run ==
    \E should \in BOOLEAN :
        /\ runs < MaxRuns
        /\ runs' = runs + 1
        /\ upgrade_last' = UpgraderDid("run", should)
        /\ IF ~should
           THEN /\ dtp72' = NoMigration
                /\ UNCHANGED <<notified, notifications, migrations>>
           ELSE LET starting == notify_starting(notified)
                IN  /\ dtp72' = Migration(skip_upgrade_called)
                    /\ notified' = starting.notified
                    /\ notifications' = notifications \o starting.emitted
                    \* do_migration() returns a deferred with the two
                    \* callbacks attached
                    /\ migrations' = migrations + 1
        /\ UNCHANGED <<controller_vars, filter_vars, skip_upgrade_called>>

\* skip()
skip ==
    /\ skip_upgrade_called' = TRUE
    /\ dtp72' = IF dtp72 # NoMigration THEN Migration(TRUE) ELSE dtp72
    /\ upgrade_last' = UpgraderDid("skip", FALSE)
    /\ UNCHANGED <<controller_vars, filter_vars, notified, migrations,
                   notifications, runs>>

\* update_status(status_text), the callback given to the migration
update_status ==
    /\ migrations > 0
    /\ Broadcasts(UpgraderTick) < MaxTicks
    /\ notifications' = Append(notifications, UpgraderTick)
    /\ upgrade_last' = UpgraderDid("update_status", FALSE)
    /\ UNCHANGED <<controller_vars, filter_vars, notified,
                   skip_upgrade_called, dtp72, migrations, runs>>

\* the deferred of do_migration() fires its callback: finish_migration
finish_migration ==
    /\ migrations > 0
    /\ migrations' = migrations - 1
    /\ notifications' = notifications \o notify_done
    /\ upgrade_last' = UpgraderDid("finish_migration", FALSE)
    /\ UNCHANGED <<controller_vars, filter_vars, notified,
                   skip_upgrade_called, dtp72, runs>>

\* the deferred of do_migration() fires its errback: log_error
log_error ==
    /\ migrations > 0
    /\ migrations' = migrations - 1
    /\ upgrade_last' = UpgraderDid("log_error", FALSE)
    /\ UNCHANGED <<controller_vars, filter_vars, notified,
                   skip_upgrade_called, dtp72, notifications, runs>>

NextUpgrader ==
    \/ run
    \/ skip
    \/ update_status
    \/ finish_migration
    \/ log_error

SpecUpgrader == Init /\ [][NextUpgrader]_vars

(* ------------------------- shorthands of the claims -------------------- *)
\* the step now taken is on_query_results handling a response
Receiving == last'.op \in {"query_response", "remote_response"}

\* ... a non-empty response whose uuid is present and differs from the
\* controller's current, non-null uuid
ReceivingStale ==
    /\ Receiving
    /\ ~last'.response.empty
    /\ query_uuid # NoUuid
    /\ last'.response.hasUuid
    /\ last'.response.uuid # query_uuid

(* --------------------------------- C1 ---------------------------------- *)
\* C1: a non-empty response whose uuid is present and differs from the
\* current (non-null) query uuid leaves the result collection, the total
\* count and the current uuid unchanged, emits no query_complete event and
\* makes on_query_results return False, for local and for remote origin.
C1_StaleResponseDiscarded ==
    [][ReceivingStale =>
          /\ data_items' = data_items
          /\ total_items' = total_items
          /\ query_uuid' = query_uuid
          /\ last'.emitted = <<>>
          /\ last'.ret = "False"]_vars

(* --------------------------------- C2 ---------------------------------- *)
\* the step now taken is a reset trigger
Resetting == last'.op \in {"on_view_sort", "on_filter_input_change"}

\* the step now taken dispatched exactly the request r
DispatchedOnly(r) ==
    /\ last'.dispatched = <<r>>
    /\ inflight' = inflight (+) SetToBag({Pending(r)})

\* C2: every reset trigger (sort change, filter-text change), from any prior
\* state, clears the result collection, mints a uuid different from the
\* previous one (and from every earlier one), and dispatches exactly one
\* request, whose window is first = 1, last = 50 and which carries the new
\* uuid.
C2_ResetClearsMintsAndStartsAtOne ==
    [][Resetting =>
          /\ data_items' = <<>>
          /\ query_uuid' # query_uuid
          /\ query_uuid' > minted
          /\ Len(last'.dispatched) = 1
          /\ DispatchedOnly(last'.dispatched[1])
          /\ last'.dispatched[1].first = 1
          /\ last'.dispatched[1].last = 50
          /\ last'.dispatched[1].uuid = query_uuid']_vars

\* a filter change has reset a controller that already had a uuid and whose
\* earlier request is still in flight
C2_Witness ==
    /\ last.op = "on_filter_input_change"
    /\ query_uuid = 2
    /\ BagIn([method |-> "GET", uuid |-> 1], inflight)

(* --------------------------------- C3 ---------------------------------- *)
\* C3: a scroll-to-bottom trigger while the result collection is empty is a
\* no-op: no request is dispatched and the uuid, the collection and the
\* total count are unchanged (so is the window of the next fetch, which is
\* computed from the collection).
C3_ScrollOnEmptyIsNoOp ==
    [][(last'.op = "on_list_scroll" /\ data_items = <<>>) =>
          /\ last'.dispatched = <<>>
          /\ UNCHANGED <<inflight, query_uuid, minted, data_items,
                         total_items>>]_vars

\* scrolled to the bottom right after a reset whose response is still due
C3_Witness ==
    /\ last.op = "on_list_scroll"
    /\ data_items = <<>>
    /\ query_uuid # NoUuid
    /\ BagIn([method |-> "GET", uuid |-> query_uuid], inflight)

(* --------------------------------- C4 ---------------------------------- *)
\* what the claims call an admitted response: non-empty, and not one whose
\* uuid is present and differs from the current non-null uuid
ReceivingAdmitted ==
    /\ Receiving
    /\ ~last'.response.empty
    /\ \/ query_uuid = NoUuid
       \/ ~last'.response.hasUuid
       \/ last'.response.uuid = query_uuid

\* C4: a response handled with origin = remote never changes the total
\* count, with or without a total field and whatever its uuid, while its
\* items are still appended when the uuid is admitted.
C4_RemoteNeverChangesTotal ==
    [][last'.op = "remote_response" =>
          /\ total_items' = total_items
          /\ ReceivingAdmitted =>
                data_items' = data_items \o last'.response.results]_vars

\* a remote response reporting another total than the current one has been
\* merged
C4_Witness ==
    /\ last.op = "remote_response"
    /\ last.response.hasTotal
    /\ last.response.total # total_items
    /\ last.response.results # <<>>
    /\ Len(data_items) > Len(last.response.results)
    /\ last.ret = "True"

(* --------------------------------- C5 ---------------------------------- *)
\* C5: an empty response passed to on_query_results, for either origin and
\* in any state, changes nothing, emits no query_complete event and is
\* answered with False.
C5_EmptyResponseIsNoOp ==
    [][(Receiving /\ last'.response.empty) =>
          /\ UNCHANGED <<data_items, total_items, query_uuid>>
          /\ last'.emitted = <<>>
          /\ last'.ret = "False"]_vars

\* an empty response answered a request of a controller that shows items
C5_Witness ==
    /\ last.op = "query_response"
    /\ last.response.empty
    /\ data_items # <<>>
    /\ total_items # 0

(* --------------------------------- C6 ---------------------------------- *)
\* C6: a non-empty response without uuid field is always admitted, also
\* when the controller has a current uuid: its items are appended to the
\* collection; and so is every non-empty response while the controller has
\* no current uuid.
C6_UntaggedAlwaysAdmitted ==
    [][(/\ Receiving
        /\ ~last'.response.empty
        /\ ~last'.response.hasUuid \/ query_uuid = NoUuid) =>
          data_items' = data_items \o last'.response.results]_vars

\* an untagged answer to a superseded request has been merged
C6_Witness ==
    /\ last.op = "query_response"
    /\ ~last.response.empty
    /\ ~last.response.hasUuid
    /\ last.response.results # <<>>
    /\ query_uuid = 2
    /\ ~BagIn([method |-> "GET", uuid |-> 2], inflight)
    /\ data_items = last.response.results

(* --------------------------------- C7 ---------------------------------- *)
\* the step before this one was a transport failure
AfterFailure == last.op = "request_failed"

\* C7: a transport failure of a dispatched request (its callback is never
\* invoked) does not change the result collection, the total count or the
\* current uuid, and the controller stays usable: the reset that follows a
\* failure dispatches one request for the first page under a fresh uuid,
\* the scroll that follows it dispatches one request for the next page
\* under the current uuid, and the response that follows it and carries
\* the current uuid is merged.
C7_FailureLeavesControllerUsable ==
    [][/\ last'.op = "request_failed" =>
             UNCHANGED <<data_items, total_items, query_uuid>>
       /\ (AfterFailure /\ Resetting) =>
             /\ Len(last'.dispatched) = 1
             /\ DispatchedOnly(last'.dispatched[1])
             /\ last'.dispatched[1].first = 1
             /\ last'.dispatched[1].uuid = query_uuid'
             /\ query_uuid' > minted
             /\ data_items' = <<>>
       /\ (/\ AfterFailure
           /\ last'.op = "on_list_scroll"
           /\ data_items # <<>>
           /\ query_uuid # NoUuid) =>
             /\ Len(last'.dispatched) = 1
             /\ DispatchedOnly(last'.dispatched[1])
             /\ last'.dispatched[1].first = Len(data_items) + 1
             /\ last'.dispatched[1].uuid = query_uuid
             /\ UNCHANGED <<query_uuid, data_items>>
       /\ (/\ AfterFailure
           /\ Receiving
           /\ ~last'.response.empty
           /\ last'.response.hasUuid
           /\ last'.response.uuid = query_uuid) =>
             data_items' = data_items \o last'.response.results]_vars

\* a request of the current query failed while the controller shows items
\* and another request of that query is still in flight
C7_Witness ==
    /\ last.op = "request_failed"
    /\ data_items # <<>>
    /\ total_items # 0
    /\ query_uuid # NoUuid
    /\ BagIn([method |-> "GET", uuid |-> query_uuid], inflight)

(* --------------------------------- C8 ---------------------------------- *)
\* C8: in the "my torrents" controller a query response whose uuid differs
\* from the current uuid, and an empty response, never change
\* channel_dirty.
C8_DirtyOnlyFromAdmitted ==
    [][(/\ variant = "mytorrents"
        /\ ReceivingStale \/ (Receiving /\ last'.response.empty)) =>
          channel_dirty' = channel_dirty]_vars

(* --------------------------------- C9 ---------------------------------- *)
\* C9: issuing the PATCH of an edited row and handling its response never
\* change the result collection, the total count or the current uuid (the
\* window of the next fetch with them), whatever queries are in flight; a
\* non-empty response {dirty: d} sets channel_dirty to d and an empty
\* response changes nothing.
C9_PatchPathIsIndependent ==
    [][/\ last'.op \in {"on_row_edited", "patch_response"} =>
             UNCHANGED <<data_items, total_items, query_uuid, minted>>
       /\ last'.op = "on_row_edited" =>
             /\ UNCHANGED channel_dirty
             /\ Len(last'.dispatched) = 1
             /\ last'.dispatched[1].method = "PATCH"
             /\ DispatchedOnly(last'.dispatched[1])
       /\ last'.op = "patch_response" =>
             channel_dirty' = IF last'.response.empty
                              THEN channel_dirty
                              ELSE last'.response.dirty]_vars

\* the PATCH answer {dirty: true} arrived while a query of the current uuid
\* was in flight
C9_Witness ==
    /\ last.op = "patch_response"
    /\ ~last.response.empty
    /\ last.response.dirty
    /\ channel_dirty
    /\ data_items # <<>>
    /\ BagIn([method |-> "GET", uuid |-> query_uuid], inflight)

RECURSIVE ReferenceBody(_)
ReferenceBody(text) ==
    IF text = <<>> THEN <<>>
    ELSE LET c == Head(text)
         IN  (IF c = " " THEN <<"\"", "*", " ", "A", "N", "D", " ", "\"">>
              ELSE IF c \in {"\"", "'"} THEN <<c, c>>
              ELSE <<c>>)
             \o ReferenceBody(Tail(text))

ReferenceFts(text) ==
    IF text = <<>> THEN <<>>
    ELSE <<"\"">> \o ReferenceBody(text) \o <<"\"", "*">>

Spaces(text) == Cardinality({i \in DOMAIN text : text[i] = " "})

\* C11: for every text over letters, space, double quote and single quote
\* the compiled filter is the one the rule gives: empty for the empty
\* text, otherwise one term "word"* with doubled quotes per word, n spaces
\* giving n + 1 words, joined with ' AND '; compiling the filter leaves
\* the controller as it was.
C11_ToFtsQueryFollowsRule ==
    /\ filter = ReferenceFts(query_text)
    /\ query_text # <<>> => Len(split(query_text)) = Spaces(query_text) + 1
    /\ query_uuid = NoUuid /\ minted = 0 /\ inflight = EmptyBag
    /\ data_items = <<>> /\ total_items = 0 /\ last = Handled("init", <<>>)

\* the text a"b has been compiled to "a""b"*
C11_Witness ==
    /\ query_text = <<"a", "\"", "b">>
    /\ filter = <<"\"", "a", "\"", "\"", "b", "\"", "*">>

(* --------------------------------- C12 --------------------------------- *)
\* C12: the result collection never holds two items of the same identity,
\* also when a local and a remote response of one epoch, or two fetches of
\* overlapping pages, report the same item.
C12_NoDuplicateItems ==
    \A i, j \in DOMAIN data_items : data_items[i] = data_items[j] => i = j

(* --------------------------------- C13 --------------------------------- *)
\* the step now taken ran perform_query, which dispatched a query request
Querying ==
    /\ last'.dispatched # <<>>
    /\ last'.dispatched[1].method = "GET"

\* C13 as stated: the current uuid changes only in a perform_query whose
\* window starts at first = 1, and a perform_query with first > 1 never
\* mints a uuid, whatever the controller's state.
C13_UuidChangesOnlyAtFirstPage ==
    [][/\ query_uuid' # query_uuid =>
              Querying /\ last'.dispatched[1].first = 1
       /\ Querying /\ last'.dispatched[1].first > 1 =>
              query_uuid' = query_uuid /\ ~last'.fresh_uuid]_vars

\* C13, amended: the current uuid changes only in a perform_query whose
\* window starts at first = 1 or that runs while the controller has no uuid
\* yet; a perform_query with first > 1 on a controller that has a uuid
\* never mints one, and one on a controller without a uuid always does.
C13_UuidChangesOnlyAtFirstPageOrWithoutUuid ==
    [][/\ query_uuid' # query_uuid =>
              /\ Querying
              /\ last'.fresh_uuid
              /\ last'.dispatched[1].first = 1 \/ query_uuid = NoUuid
       /\ Querying /\ last'.dispatched[1].first > 1 =>
              IF query_uuid # NoUuid
              THEN query_uuid' = query_uuid /\ ~last'.fresh_uuid
              ELSE query_uuid' # NoUuid /\ last'.fresh_uuid]_vars

\* the first dispatch of a controller whose collection remote results had
\* populated was an incremental fetch (first > 1), and it drew a uuid
C13_Witness ==
    /\ last.op = "on_list_scroll"
    /\ last.dispatched # <<>>
    /\ last.dispatched[1].first > 1
    /\ last.fresh_uuid
    /\ last.dispatched[1].uuid = query_uuid

(* --------------------------------- C14 --------------------------------- *)
IsPrefix(a, b) == Len(a) <= Len(b) /\ SubSeq(b, 1, Len(a)) = a

\* the step now taken is one of those that begin an epoch: a sort reset, a
\* filter reset, an explicit perform_query(first=1, ...), fetch_preview
BeginningEpoch ==
    /\ last'.op \in {"on_view_sort", "on_filter_input_change",
                     "perform_query_first_page", "fetch_preview"}
    /\ query_uuid' # query_uuid

\* C14: every step that begins an epoch by changing the current uuid (sort
\* reset, filter reset, explicit perform_query(first=1, ...), fetch_preview)
\* leaves the result collection empty at dispatch, and a step that keeps the
\* uuid only appends to the end of the collection.
C14_EmptyAtEpochStartAppendOnlyWithin ==
    [][/\ BeginningEpoch => data_items' = <<>>
       /\ query_uuid' = query_uuid => IsPrefix(data_items, data_items')]_vars

(* --------------------------------- C15 --------------------------------- *)
\* the step now taken ran perform_query without first/last on a non-empty
\* collection while a uuid was set
IncrementalFetch ==
    /\ last'.op \in {"on_list_scroll", "perform_query"}
    /\ last'.dispatched # <<>>
    /\ data_items # <<>>
    /\ query_uuid # NoUuid

\* C15: an incremental fetch on a non-empty collection of length n with a
\* current uuid keeps the uuid and the collection and dispatches exactly one
\* request, with first = n + 1, last = n + item_load_batch and that uuid.
C15_IncrementalFetchKeepsUuid ==
    [][IncrementalFetch =>
          /\ query_uuid' = query_uuid
          /\ ~last'.fresh_uuid
          /\ data_items' = data_items
          /\ Len(last'.dispatched) = 1
          /\ DispatchedOnly(last'.dispatched[1])
          /\ last'.dispatched[1].first = Len(data_items) + 1
          /\ last'.dispatched[1].last = Len(data_items) + item_load_batch
          /\ last'.dispatched[1].uuid = query_uuid]_vars

\* a scroll to the bottom of a collection of two items under uuid 1 has
\* dispatched the window 3..52 with uuid 1
C15_Witness ==
    /\ last.op = "on_list_scroll"
    /\ Len(data_items) = 2
    /\ query_uuid = 1
    /\ ~last.fresh_uuid
    /\ last.dispatched = <<QueryRequest(rest_endpoint_url(variant), 1, 3, 52)>>

(* --------------------------------- C16 --------------------------------- *)
\* C16: within one epoch the result collection is the concatenation, in
\* arrival order, of the batches of the admitted responses.  Step by step:
\* the collection is empty when a step begins an epoch, an admitted
\* response appends its batch whole at the end, whichever request it
\* answers, and no other step of the epoch touches the collection.
C16_CollectionIsArrivalOrderConcatenation ==
    [][/\ BeginningEpoch => data_items' = <<>>
       /\ ReceivingAdmitted =>
              data_items' = data_items \o last'.response.results
       /\ query_uuid' = query_uuid /\ ~ReceivingAdmitted =>
              data_items' = data_items]_vars

(* --------------------------------- C17 --------------------------------- *)
\* C17: fetch_preview changes neither the listing's current uuid nor its
\* result collection (so the answer to a listing request that was in flight
\* before it is still admitted afterwards).
C17_PreviewLeavesListingAlone ==
    [][last'.op = "fetch_preview" =>
          /\ query_uuid' = query_uuid
          /\ data_items' = data_items]_vars

(* --------------------------------- C18 --------------------------------- *)
\* the window of every dispatched query request: first >= 1 and
\* last = first + item_load_batch - 1; and within the epoch, first is not
\* below the first of the request dispatched before it
WindowWellFormed(r) ==
    /\ r.first >= 1
    /\ r.last = r.first + item_load_batch - 1
    /\ epoch_first' = r.first
    /\ query_uuid' = query_uuid => r.first >= epoch_first

\* C18 as stated: within one epoch the 'first' of successively dispatched
\* requests is non-decreasing and starts at 1, and every window has
\* first >= 1 and last = first + item_load_batch - 1.
C18_WindowsMonotoneFromOne ==
    [][Querying =>
          /\ WindowWellFormed(last'.dispatched[1])
          /\ query_uuid' # query_uuid => last'.dispatched[1].first = 1]_vars

\* C18, amended: within one epoch the 'first' of successively dispatched
\* requests is non-decreasing; the epoch starts at 1 unless an incremental
\* fetch opened it on a controller that had no uuid, and then it starts at
\* the length of the collection plus one; every window has first >= 1 and
\* last = first + item_load_batch - 1.
C18_WindowsMonotoneWithinEpoch ==
    [][Querying =>
          /\ WindowWellFormed(last'.dispatched[1])
          /\ query_uuid' # query_uuid =>
                \/ last'.dispatched[1].first = 1
                \/ /\ query_uuid = NoUuid
                   /\ last'.dispatched[1].first = Len(data_items) + 1]_vars

\* a second request of the running epoch has been dispatched while the
\* first one is in flight, for the window 2..51
C18_Witness ==
    /\ last.op \in {"on_list_scroll", "perform_query"}
    /\ last.dispatched # <<>>
    /\ ~last.fresh_uuid
    /\ last.dispatched[1].first = 2
    /\ last.dispatched[1].last = 51
    /\ epoch_first = 2
    /\ CopiesIn([method |-> "GET", uuid |-> query_uuid], inflight) = 2

StartedOnceBeforeFinished ==
    /\ Broadcasts(UpgraderStarted) <= 1
    /\ \A i \in DOMAIN notifications :
           notifications[i] = UpgraderFinished =>
               \E j \in 1..(i - 1) : notifications[j] = UpgraderStarted

\* C20: over any number of run() calls of one TriblerUpgrader the started
\* notification is broadcast at most once and only by a run() that found an
\* upgrade to be required; every finished notification comes after the
\* started one and is broadcast only by the success callback of a
\* migration, never on the error path or by a run() that needs no upgrade.
C20_StartedOnceFinishedOnSuccess ==
    /\ []StartedOnceBeforeFinished
    /\ [][/\ Broadcasts(UpgraderStarted)' > Broadcasts(UpgraderStarted) =>
                 upgrade_last'.op = "run" /\ upgrade_last'.should_upgrade
          /\ Broadcasts(UpgraderFinished)' > Broadcasts(UpgraderFinished) =>
                 upgrade_last'.op = "finish_migration"
          /\ \/ upgrade_last'.op = "log_error"
             \/ upgrade_last'.op = "run" /\ ~upgrade_last'.should_upgrade
             => notifications' = notifications]_vars

\* three runs, the first two of which migrated with success: one started
\* notification, two finished ones
C20_Witness ==
    /\ runs = 3
    /\ Broadcasts(UpgraderStarted) = 1
    /\ Broadcasts(UpgraderFinished) = 2
    /\ notifications[1] = UpgraderStarted
    /\ upgrade_last.op = "run"

====
